---- MODULE Spec2Model ----
(***************************************************************************)
(* Guest-side TDCALL / TDVMCALL layer (kernel/src/tdx/tdcall/tdx_tdcall.rs) *)
(*                                                                         *)
(* Part 1: the page acceptance engine, td_accept_memory / td_accept_pages, *)
(*         run by one or two virtual CPUs against the security monitor.    *)
(* Part 2: the service facade and the lazily initialised SHARED_MASK.      *)
(*                                                                         *)
(* Byte addresses of the acceptance engine are integers (they stay far     *)
(* below 2^52, the widest guest physical address, so u64 arithmetic never  *)
(* wraps).  64-bit register values of the facade are sets of bit           *)
(* positions: | is \cup, & is \cap, ! is complement in 0..63.              *)
(***************************************************************************)
EXTENDS Integers, Sequences, FiniteSets, TLC

VARIABLES
    \* ---- security monitor (external collaborator) ----
    monitor,      \* "any": answers every status; "pages": answers from page state
    only4K,       \* 2MB blocks whose bookkeeping supports only the 4KB granule
    accepted,     \* accepted private memory, as disjoint byte intervals <<lo, hi>>
    accepted0,    \* the monitor's accepted memory before any pass started
    \* ---- td_accept_memory, per virtual CPU ----
    pc,           \* "off" | "idle" | "loop" | "pages" | "done" | "panic"
    address,      \* argument address
    len,          \* argument len
    start,        \* the cursor
    stack,        \* td_accept_pages frames: [address, pages, page_size, i]
    \* ---- observations of the accept attempts issued ----
    nAttempts,    \* accept attempts issued
    n2M,          \* of which at the 2MB level
    lastAddr,     \* address of the latest attempt (-1: none)
    lastLevel,    \* level of the latest attempt
    covered,      \* memory covered by the attempts, as disjoint byte intervals
    overlap,      \* some attempt covered memory an earlier attempt covered
    allOk,        \* every attempt so far returned success
    unexpected,   \* the first status returned that the engine must not tolerate
    sawAlready,   \* some attempt returned "already accepted"
    splitBase,    \* address of the latest 2MB attempt answered "size mismatch"
    splitCount,   \* attempts issued since that answer (capped at 513)
    \* ---- host VMM (external collaborator) ----
    host,         \* "any": answers every status; "ok": every call succeeds
    \* ---- SHARED_MASK: the lazy static and its once-gate ----
    once,         \* "INCOMPLETE" | "RUNNING" | "COMPLETE" | "PANICKED"
    maskCell,     \* the stored value (a set of bit positions; {} until written)
    infoCalls,    \* guest-info calls issued by the initialiser
    infoStatus,   \* status the guest-info leaf returned to the initialiser
    infoRcx,      \* rcx the guest-info leaf returned to the initialiser
    \* ---- service facade, per virtual CPU ----
    fpc,          \* "off" | "idle" | "mask" | "init" | "publish" | "issue" | "halted" | "ret" | "panic"
    op,           \* the operation in progress
    arg,          \* its arguments: [shared, addr, size]
    shareBit,     \* the value this call read from SHARED_MASK (NoBits: not read)
    hostAddr,     \* the address register presented to the host (NoBits: none)
    status,       \* the status the call returned
    out,          \* the output registers the call returned
    result,       \* what the operation hands to its caller
    haltReqs,     \* halt requests issued by the operation in progress
    calls,        \* operations this CPU has completed
    prevMap       \* the previous completed mapgpa of this CPU: [valid, shared, addr, r12]

acceptVars == <<monitor, only4K, accepted, accepted0, pc, address, len, start,
                stack, nAttempts, n2M, lastAddr, lastLevel, covered, overlap,
                allOk, unexpected, sawAlready, splitBase, splitCount>>

facadeVars == <<host, once, maskCell, infoCalls, infoStatus, infoRcx, fpc, op, arg,
                shareBit, hostAddr, status, out, result, haltReqs, calls, prevMap>>

vars == <<acceptVars, facadeVars>>

\* ---------------------------------------------------------------- constants
PAGE_SIZE_4K == 4096
PAGE_SIZE_2M == 2097152
\* pages of the recursive call td_accept_pages(accept_addr, 512, PAGE_SIZE_4K)
SPLIT_PAGES == 512

\* ---------------------------------------------------------------- bounds
NumCpus == 2
\* bases are k * 2MB + offset, k in 0..MaxBaseBlock
MaxBaseBlock == 0
\* lengths are k * 2MB + offset, k in 0..MaxLenBlock
MaxLenBlock == 2

Cpus == 1..NumCpus

BaseOffsets == {0, 1, 1048576, 2093056}
LenOffsets == {0, 2048, 8192}
Bases == {k * PAGE_SIZE_2M + o : k \in 0..MaxBaseBlock, o \in BaseOffsets}
Lens == {k * PAGE_SIZE_2M + o : k \in 0..MaxLenBlock, o \in LenOffsets}

\* ---------------------------------------------------------------- intervals
Min(S) == CHOOSE x \in S : \A y \in S : x <= y
Max(S) == CHOOSE x \in S : \A y \in S : y <= x

\* every byte of [lo, hi) lies in S
Covers(S, lo, hi) == \E iv \in S : iv[1] <= lo /\ hi <= iv[2]
\* some byte of [lo, hi) lies in S
Intersects(S, lo, hi) == \E iv \in S : iv[1] < hi /\ lo < iv[2]
\* S with [lo, hi) added, kept disjoint and merged
AddInterval(S, lo, hi) ==
    LET touching == {iv \in S : iv[1] <= hi /\ lo <= iv[2]}
        nlo == Min({lo} \cup {iv[1] : iv \in touching})
        nhi == Max({hi} \cup {iv[2] : iv \in touching})
    IN (S \ touching) \cup {<<nlo, nhi>>}

\* ---------------------------------------------------------------- status translator
SUCCESS == "TDCALL_STATUS_SUCCESS"
MISMATCH == "TDCALL_STATUS_PAGE_SIZE_MISMATCH"
ALREADY == "TDCALL_STATUS_PAGE_ALREADY_ACCEPTED"
LeafStatuses == {MISMATCH, ALREADY, "LEAF_OTHER"}
GeneralStatuses == {"OPERAND_BUSY", "OPERAND_INVALID"}
TdCallStatuses == {SUCCESS} \cup LeafStatuses \cup GeneralStatuses

\* impl From<u64> for TdCallError: a general reason, or the opaque leaf code
TdCallErrorFrom(ret) ==
    IF ret \in GeneralStatuses
    THEN [kind |-> ret, code |-> "none"]
    ELSE [kind |-> "LeafSpecific", code |-> ret]

\* tdcall_accept_page: Ok(()) on status 0, Err(ret.into()) otherwise
tdcall_accept_page(ret) ==
    IF ret # SUCCESS
    THEN [ok |-> FALSE, err |-> TdCallErrorFrom(ret)]
    ELSE [ok |-> TRUE, err |-> [kind |-> "none", code |-> "none"]]

\* ---------------------------------------------------------------- monitor
LevelSize(level) == IF level = 1 THEN PAGE_SIZE_2M ELSE PAGE_SIZE_4K
\* the accept leaf's operand: the level in the low bits, the address above them
OperandLevel(rcx) == rcx % PAGE_SIZE_4K
OperandGpa(rcx) == rcx - (rcx % PAGE_SIZE_4K)

\* what a monitor that keeps page state answers to an accept of gpa at level
PageStateAnswer(gpa, level) ==
    IF Covers(accepted, gpa, gpa + LevelSize(level)) THEN ALREADY
    ELSE IF level = 1 /\ (gpa \in only4K \/ Intersects(accepted, gpa, gpa + PAGE_SIZE_2M))
         THEN MISMATCH
         ELSE SUCCESS

MonitorAnswers(gpa, level) ==
    IF monitor = "pages" THEN {PageStateAnswer(gpa, level)} ELSE TdCallStatuses

MonitorAccept(gpa, level, ret) ==
    IF monitor = "pages" /\ ret = SUCCESS
    THEN AddInterval(accepted, gpa, gpa + LevelSize(level))
    ELSE accepted

\* ---------------------------------------------------------------- td_accept_pages
\* accept_addr | accept_level, for accept_level in {0, 1}
BitOr(a, l) == IF l = 1 /\ a % 2 = 0 THEN a + 1 ELSE a

AcceptLevel(page_size) == IF page_size = PAGE_SIZE_2M THEN 1 ELSE 0

\* variants of the match, as slips in the code would make it
\* a size mismatch is stepped over instead of being split
AcceptDisposition_NoSplit(res, page_size) ==
    IF res.ok THEN "next"
    ELSE IF res.err.kind = "LeafSpecific" /\ res.err.code \in {MISMATCH, ALREADY}
         THEN "next"
    ELSE "panic"
\* a size mismatch is split whatever the page size
AcceptDisposition_AnySize(res, page_size) ==
    IF res.ok THEN "next"
    ELSE IF res.err.kind = "LeafSpecific" /\ res.err.code = MISMATCH
         THEN IF page_size = PAGE_SIZE_2M THEN "split" ELSE "next"
    ELSE IF res.err.kind = "LeafSpecific" /\ res.err.code = ALREADY
         THEN "next"
    ELSE "panic"
\* "already accepted" is not tolerated
AcceptDisposition_NoAlready(res, page_size) ==
    IF res.ok THEN "next"
    ELSE IF res.err.kind = "LeafSpecific" /\ res.err.code = MISMATCH
              /\ page_size = PAGE_SIZE_2M
         THEN "split"
    ELSE "panic"

\* the match on tdcall_accept_page's result: what the loop body does next
AcceptDisposition(res, page_size) ==
    IF res.ok THEN "next"
    ELSE IF res.err.kind = "LeafSpecific" /\ res.err.code = MISMATCH
              /\ page_size = PAGE_SIZE_2M
         THEN "split"
    ELSE IF res.err.kind = "LeafSpecific" /\ res.err.code # MISMATCH
              /\ res.err.code = ALREADY
         THEN "next"
    ELSE "panic"

\* the statuses the engine tolerates at a page size
Tolerated(ret, page_size) ==
    \/ ret = SUCCESS
    \/ ret = ALREADY
    \/ ret = MISMATCH /\ page_size = PAGE_SIZE_2M

Top(s) == s[Len(s)]
Pop(s) == SubSeq(s, 1, Len(s) - 1)
SetTop(s, f) == [s EXCEPT ![Len(s)] = f]

\* one iteration of `for i in 0..pages`: an accept attempt and its handling
AcceptStep(p) ==
    /\ pc[p] = "pages"
    /\ Top(stack[p]).i < Top(stack[p]).pages
    /\ LET f == Top(stack[p])
           accept_addr == f.address + f.i * f.page_size
           accept_level == AcceptLevel(f.page_size)
           rcx == BitOr(accept_addr, accept_level)
           gpa == OperandGpa(rcx)
           level == OperandLevel(rcx)
       IN \E ret \in MonitorAnswers(gpa, level) :
            LET d == AcceptDisposition(tdcall_accept_page(ret), f.page_size)
            IN /\ accepted' = MonitorAccept(gpa, level, ret)
               /\ pc' = [pc EXCEPT ![p] = IF d = "panic" THEN "panic" ELSE "pages"]
               /\ stack' = [stack EXCEPT ![p] =
                     IF d = "next" THEN SetTop(@, [f EXCEPT !.i = f.i + 1])
                     ELSE IF d = "split"
                          THEN Append(@, [address |-> accept_addr, pages |-> SPLIT_PAGES,
                                          page_size |-> PAGE_SIZE_4K, i |-> 0])
                          ELSE @]
               /\ nAttempts' = [nAttempts EXCEPT ![p] = @ + 1]
               /\ n2M' = [n2M EXCEPT ![p] = IF level = 1 THEN @ + 1 ELSE @]
               /\ lastAddr' = [lastAddr EXCEPT ![p] = gpa]
               /\ lastLevel' = [lastLevel EXCEPT ![p] = level]
               /\ covered' = [covered EXCEPT ![p] = AddInterval(@, gpa, gpa + LevelSize(level))]
               /\ overlap' = [overlap EXCEPT ![p] =
                     @ \/ Intersects(covered[p], gpa, gpa + LevelSize(level))]
               /\ allOk' = [allOk EXCEPT ![p] = @ /\ ret = SUCCESS]
               /\ unexpected' = [unexpected EXCEPT ![p] =
                     IF @ = "none" /\ ~Tolerated(ret, f.page_size) THEN ret ELSE @]
               /\ sawAlready' = [sawAlready EXCEPT ![p] = @ \/ ret = ALREADY]
               /\ splitBase' = [splitBase EXCEPT ![p] =
                     IF level = 1 /\ ret = MISMATCH THEN gpa ELSE @]
               /\ splitCount' = [splitCount EXCEPT ![p] =
                     IF level = 1 /\ ret = MISMATCH THEN 0
                     ELSE IF @ <= SPLIT_PAGES THEN @ + 1 ELSE @]
    /\ UNCHANGED <<monitor, only4K, accepted0, address, len, start>>
    /\ UNCHANGED facadeVars

\* variant: the cursor moves by one block whatever npages was
Advance_OneBlock(pages, page_size) ==
    IF page_size = PAGE_SIZE_2M THEN PAGE_SIZE_2M ELSE PAGE_SIZE_4K

\* how far the cursor moves once td_accept_pages(start, pages, page_size) is back
Advance(pages, page_size) ==
    IF page_size = PAGE_SIZE_2M THEN pages * PAGE_SIZE_2M ELSE PAGE_SIZE_4K

\* the for loop is exhausted: td_accept_pages returns, to the `continue` of the
\* frame that split, or to td_accept_memory, which advances the cursor
ReturnStep(p) ==
    /\ pc[p] = "pages"
    /\ Top(stack[p]).i >= Top(stack[p]).pages
    /\ LET f == Top(stack[p])
           rest == Pop(stack[p])
       IN IF rest # <<>>
          THEN /\ stack' = [stack EXCEPT ![p] =
                     SetTop(rest, [Top(rest) EXCEPT !.i = Top(rest).i + 1])]
               /\ UNCHANGED <<pc, start>>
          ELSE /\ stack' = [stack EXCEPT ![p] = <<>>]
               /\ start' = [start EXCEPT ![p] = @ + Advance(f.pages, f.page_size)]
               /\ pc' = [pc EXCEPT ![p] = "loop"]
    /\ UNCHANGED <<monitor, only4K, accepted, accepted0, address, len, nAttempts, n2M,
                   lastAddr, lastLevel, covered, overlap, allOk, unexpected, sawAlready,
                   splitBase, splitCount>>
    /\ UNCHANGED facadeVars

\* ---------------------------------------------------------------- td_accept_memory
\* variants: the alignment of the cursor is not tested
Use2M_NoAlign(remaining, s) == remaining >= PAGE_SIZE_2M
Use4K_NoAlign(remaining, s) == remaining >= PAGE_SIZE_4K

Use2M(remaining, s) == remaining >= PAGE_SIZE_2M /\ s % PAGE_SIZE_2M = 0
Use4K(remaining, s) == remaining >= PAGE_SIZE_4K /\ s % PAGE_SIZE_4K = 0

\* one evaluation of `while start < end` and the granule selection
LoopStep(p) ==
    /\ pc[p] = "loop"
    /\ LET end == address[p] + len[p]
           remaining == end - start[p]
       IN IF ~(start[p] < end)
          THEN /\ pc' = [pc EXCEPT ![p] = "done"]
               /\ UNCHANGED stack
          ELSE IF Use2M(remaining, start[p])
          THEN /\ stack' = [stack EXCEPT ![p] =
                     <<[address |-> start[p], pages |-> remaining \div PAGE_SIZE_2M,
                        page_size |-> PAGE_SIZE_2M, i |-> 0]>>]
               /\ pc' = [pc EXCEPT ![p] = "pages"]
          ELSE IF Use4K(remaining, start[p])
          THEN /\ stack' = [stack EXCEPT ![p] =
                     <<[address |-> start[p], pages |-> 1,
                        page_size |-> PAGE_SIZE_4K, i |-> 0]>>]
               /\ pc' = [pc EXCEPT ![p] = "pages"]
          ELSE /\ pc' = [pc EXCEPT ![p] = "panic"]
               /\ UNCHANGED stack
    /\ UNCHANGED <<monitor, only4K, accepted, accepted0, address, len, start, nAttempts,
                   n2M, lastAddr, lastLevel, covered, overlap, allOk, unexpected, sawAlready,
                   splitBase, splitCount>>
    /\ UNCHANGED facadeVars

\* the ranges the callers pass
IdemRanges(p) ==
    IF p = 1 THEN {<<0, PAGE_SIZE_2M>>, <<4096, 8192>>}
    ELSE IF p = 2 THEN {<<4096, 8192>>, <<0, 4096>>}
    ELSE {<<4096, 4096>>}

Ranges(p) ==
    IF monitor = "pages" THEN IdemRanges(p) ELSE Bases \X Lens

\* td_accept_memory(address, len) is entered
Call(p) ==
    /\ pc[p] = "idle"
    /\ \E r \in Ranges(p) :
         /\ address' = [address EXCEPT ![p] = r[1]]
         /\ len' = [len EXCEPT ![p] = r[2]]
         /\ start' = [start EXCEPT ![p] = r[1]]
    /\ pc' = [pc EXCEPT ![p] = "loop"]
    /\ UNCHANGED <<monitor, only4K, accepted, accepted0, stack, nAttempts, n2M,
                   lastAddr, lastLevel, covered, overlap, allOk, unexpected, sawAlready,
                   splitBase, splitCount>>
    /\ UNCHANGED facadeVars

InitCpu ==
    /\ address = [p \in Cpus |-> 0]
    /\ len = [p \in Cpus |-> 0]
    /\ start = [p \in Cpus |-> 0]
    /\ stack = [p \in Cpus |-> <<>>]
    /\ nAttempts = [p \in Cpus |-> 0]
    /\ n2M = [p \in Cpus |-> 0]
    /\ lastAddr = [p \in Cpus |-> -1]
    /\ lastLevel = [p \in Cpus |-> 0]
    /\ covered = [p \in Cpus |-> {}]
    /\ overlap = [p \in Cpus |-> FALSE]
    /\ allOk = [p \in Cpus |-> TRUE]
    /\ unexpected = [p \in Cpus |-> "none"]
    /\ sawAlready = [p \in Cpus |-> FALSE]
    /\ splitBase = [p \in Cpus |-> -1]
    /\ splitCount = [p \in Cpus |-> 0]

\* ================================================================ service facade
\* ---------------------------------------------------------------- bounds
\* operations one virtual CPU completes
MaxCalls == 2

\* ---------------------------------------------------------------- 64-bit values
Low(n) == 0..(n - 1)
RECURSIVE Pow2(_)
Pow2(n) == IF n = 0 THEN 1 ELSE 2 * Pow2(n - 1)
RECURSIVE BitsValue(_)
\* the number a set of (low) bit positions stands for
BitsValue(S) ==
    IF S = {} THEN 0
    ELSE LET b == CHOOSE x \in S : TRUE IN Pow2(b) + BitsValue(S \ {b})
\* v >> n
ShiftRight(S, n) == {b - n : b \in {x \in S : x >= n}}

\* ---------------------------------------------------------------- statuses
TDVMCALL_STATUS_SUCCESS == "TDVMCALL_STATUS_SUCCESS"
TdVmcallStatuses == {TDVMCALL_STATUS_SUCCESS, "TDVMCALL_STATUS_RETRY",
                     "TDVMCALL_STATUS_OPERAND_INVALID"}
\* impl From<u64> for TdVmcallError
TdVmcallErrorFrom(ret) == [kind |-> "TdVmcallError", code |-> ret]

\* ---------------------------------------------------------------- operations
IoReadOps == {"io_read_8", "io_read_16", "io_read_32"}
IoWriteOps == {"io_write_8", "io_write_16", "io_write_32"}
MmioOps == {"mmio_read", "mmio_write"}
\* operations that call tdvmcall_halt() on a non-success status
HaltOps == IoReadOps \cup IoWriteOps \cup MmioOps \cup {"cpuid"}
\* operations that return Err(ret.into()) on a non-success status
VmErrOps == {"mapgpa", "rdmsr", "wrmsr", "setup_event_notify", "get_quote"}
TdErrOps == {"get_td_info", "extend_rtmr", "get_ve_info"}
ErrOps == VmErrOps \cup TdErrOps
\* operations that dereference SHARED_MASK
MaskOps == {"mmio_read", "mmio_write", "mapgpa", "get_quote"}
AllOps == HaltOps \cup ErrOps

NoArg == [shared |-> FALSE, addr |-> {}, size |-> 8]
NoRegs == [r \in {"r11", "r12", "r13", "r14", "r15", "rcx", "rdx", "r8"} |-> {}]
NoResult == [kind |-> "none", val |-> "none"]
\* no 64-bit value: not read, not presented
NoBits == {-1}
NoMap == [valid |-> FALSE, shared |-> FALSE, addr |-> {}, r12 |-> {}]

\* addresses the callers pass: with and without the bits 47 and 51
Addrs == IF host = "ok" THEN {{12, 21}}
         ELSE {{12}, {12, 47}, {21, 51}, {12, 21, 47, 51}}
Sizes == IF host = "ok" THEN {4} ELSE {1, 4}

Args(p, o) ==
    IF o = "mapgpa"
    THEN {[shared |-> sh, addr |-> a, size |-> 8] :
             sh \in BOOLEAN,
             a \in Addrs \cup (IF prevMap[p].valid THEN {prevMap[p].r12} ELSE {})}
    ELSE IF o \in MmioOps
    THEN {[shared |-> FALSE, addr |-> a, size |-> sz] : a \in Addrs, sz \in Sizes}
    ELSE IF o = "get_quote"
    THEN {[shared |-> FALSE, addr |-> a, size |-> 8] : a \in Addrs}
    ELSE {NoArg}

OpsOffered == IF host = "ok" THEN MaskOps ELSE AllOps

\* register blocks the host or the monitor may hand back
OutBlocks ==
    IF host = "ok" THEN {NoRegs}
    ELSE {NoRegs, [NoRegs EXCEPT !["r11"] = {3, 9, 17, 33}, !["r12"] = {0, 32},
                                  !["r13"] = {1, 40}, !["r14"] = {2}, !["r15"] = {31, 63},
                                  !["rcx"] = {4, 5, 9}, !["rdx"] = {28}, !["r8"] = {0, 33}]}
CallStatuses(o) ==
    IF host = "ok" THEN {IF o \in TdErrOps THEN SUCCESS ELSE TDVMCALL_STATUS_SUCCESS}
    ELSE IF o \in TdErrOps THEN {SUCCESS, "OPERAND_INVALID", "LEAF_OTHER"}
    ELSE TdVmcallStatuses
Succeeded(o, ret) == ret = (IF o \in TdErrOps THEN SUCCESS ELSE TDVMCALL_STATUS_SUCCESS)

\* rcx values the guest-info leaf may return to the initialiser
InfoRcxValues ==
    IF host = "ok"
    THEN SUBSET Low(6) \cup {{4, 5, 6}, {2, 4, 5, 63}, {0, 1, 2, 3, 4, 5, 6}}
    ELSE {{4, 5}, {2, 4, 5, 40}, {0, 2}}
InfoStatuses == {SUCCESS, "OPERAND_INVALID"}

\* ---------------------------------------------------------------- SHARED_MASK
\* tdcall_get_td_info: Err on a non-success status, else the TdInfo snapshot
tdcall_get_td_info(ret, regs) ==
    IF ret # SUCCESS
    THEN [ok |-> FALSE, err |-> TdCallErrorFrom(ret), info |-> "none"]
    ELSE [ok |-> TRUE, err |-> "none",
          info |-> [gpaw |-> regs["rcx"] \cap Low(6),
                    attributes |-> regs["rdx"],
                    max_vcpus |-> ShiftRight(regs["r8"], 32) \cap Low(32),
                    num_vcpus |-> regs["r8"] \cap Low(32)]]

\* variant: 1u64 << gpaw
MaskOfWidth_NoMinus(gpaw) == {gpaw}

\* 1u64 << (gpaw - 1)
MaskOfWidth(gpaw) == {gpaw - 1}

\* td_shared_mask: Some(mask) for a width of 48 or 52, None otherwise
td_shared_mask(ret, regs) ==
    LET r == tdcall_get_td_info(ret, regs)
    IN IF ~r.ok THEN [some |-> FALSE, val |-> {}]
       ELSE LET gpaw == BitsValue(r.info.gpaw \cap Low(6))
            IN IF gpaw = 48 \/ gpaw = 52
               THEN [some |-> TRUE, val |-> MaskOfWidth(gpaw)]
               ELSE [some |-> FALSE, val |-> {}]

\* variant: a plain lazily written static, without the gate's exclusion
OnceMayInit_NoGate == once \in {"INCOMPLETE", "RUNNING"}

\* the once-gate lets a caller run the initialiser
OnceMayInit == once = "INCOMPLETE"
\* the once-gate lets a caller read the stored value
OnceMayRead == once = "COMPLETE"

\* *SHARED_MASK, initialised: read the stored value
MaskRead(p) ==
    /\ fpc[p] = "mask"
    /\ OnceMayRead
    /\ shareBit' = [shareBit EXCEPT ![p] = maskCell]
    /\ fpc' = [fpc EXCEPT ![p] = "issue"]
    /\ UNCHANGED <<host, once, maskCell, infoCalls, infoStatus, infoRcx, op, arg,
                   hostAddr, status, out, result, haltReqs, calls, prevMap>>
    /\ UNCHANGED acceptVars

\* *SHARED_MASK, first access: this caller wins the gate
MaskInitBegin(p) ==
    /\ fpc[p] = "mask"
    /\ OnceMayInit
    /\ once' = "RUNNING"
    /\ fpc' = [fpc EXCEPT ![p] = "init"]
    /\ UNCHANGED <<host, maskCell, infoCalls, infoStatus, infoRcx, op, arg, shareBit,
                   hostAddr, status, out, result, haltReqs, calls, prevMap>>
    /\ UNCHANGED acceptVars

\* td_shared_mask().expect(..): the guest-info call, then the value is stored or
\* the initialiser panics
MaskInitRun(p) ==
    /\ fpc[p] = "init"
    /\ \E ret \in InfoStatuses, rcx \in InfoRcxValues :
         LET m == td_shared_mask(ret, [NoRegs EXCEPT !["rcx"] = rcx])
         IN /\ infoCalls' = infoCalls + 1
            /\ infoStatus' = ret
            /\ infoRcx' = rcx
            /\ IF m.some
               THEN /\ maskCell' = m.val
                    /\ fpc' = [fpc EXCEPT ![p] = "publish"]
                    /\ once' = once
               ELSE /\ maskCell' = maskCell
                    /\ fpc' = [fpc EXCEPT ![p] = "panic"]
                    /\ once' = "PANICKED"
    /\ UNCHANGED <<host, op, arg, shareBit, hostAddr, status, out, result, haltReqs,
                   calls, prevMap>>
    /\ UNCHANGED acceptVars

\* the gate is marked complete and the initialising caller reads the value
MaskInitDone(p) ==
    /\ fpc[p] = "publish"
    /\ once' = "COMPLETE"
    /\ shareBit' = [shareBit EXCEPT ![p] = maskCell]
    /\ fpc' = [fpc EXCEPT ![p] = "issue"]
    /\ UNCHANGED <<host, maskCell, infoCalls, infoStatus, infoRcx, op, arg, hostAddr,
                   status, out, result, haltReqs, calls, prevMap>>
    /\ UNCHANGED acceptVars

\* *SHARED_MASK after the initialiser panicked: the access panics too
MaskPoisoned(p) ==
    /\ fpc[p] = "mask"
    /\ once = "PANICKED"
    /\ fpc' = [fpc EXCEPT ![p] = "panic"]
    /\ UNCHANGED <<host, once, maskCell, infoCalls, infoStatus, infoRcx, op, arg,
                   shareBit, hostAddr, status, out, result, haltReqs, calls, prevMap>>
    /\ UNCHANGED acceptVars

\* ---------------------------------------------------------------- the operations
\* variant: the private conversion toggles the bit: paddr ^ share_bit
MapGpaAddr_Xor(shared, paddr, share_bit) ==
    IF shared THEN paddr \cup share_bit
    ELSE (paddr \ share_bit) \cup (share_bit \ paddr)

\* tdvmcall_mapgpa: paddr | share_bit, or paddr & !share_bit
MapGpaAddr(shared, paddr, share_bit) ==
    IF shared THEN paddr \cup share_bit ELSE paddr \cap ((0..63) \ share_bit)

\* the address register an operation presents to the host
HostAddress(o, a, share_bit) ==
    IF o \in MmioOps \cup {"get_quote"} THEN a.addr \cup share_bit
    ELSE IF o = "mapgpa" THEN MapGpaAddr(a.shared, a.addr, share_bit)
    ELSE NoBits

\* the value a halting operation returns, computed from the output registers
ReadValue(o, a, regs) ==
    IF o = "io_read_8" THEN regs["r11"] \cap Low(8)
    ELSE IF o = "io_read_16" THEN regs["r11"] \cap Low(16)
    ELSE IF o = "io_read_32" THEN regs["r11"] \cap Low(32)
    ELSE IF o = "mmio_read" THEN regs["r11"] \cap Low(8 * a.size)
    ELSE IF o = "cpuid"
    THEN [eax |-> regs["r12"] \cap Low(32), ebx |-> regs["r13"] \cap Low(32),
          ecx |-> regs["r14"] \cap Low(32), edx |-> regs["r15"] \cap Low(32)]
    ELSE "unit"

\* the payload of Ok(..)
OkValue(o, regs) ==
    IF o = "rdmsr" THEN regs["r11"]
    ELSE IF o = "get_td_info" THEN tdcall_get_td_info(SUCCESS, regs).info
    ELSE IF o = "get_ve_info"
    THEN [exit_reason |-> regs["rcx"] \cap Low(32), exit_qualification |-> regs["rdx"],
          guest_la |-> regs["r8"]]
    ELSE "unit"

\* what a halting operation does with the status: halt, or return the value
HaltingOutcome(o, a, ret, regs) ==
    IF ret # TDVMCALL_STATUS_SUCCESS
    THEN [fpc |-> "halted", halts |-> 1, result |-> NoResult]
    ELSE [fpc |-> "ret", halts |-> 0,
          result |-> [kind |-> "Value", val |-> ReadValue(o, a, regs)]]

\* what an error-returning operation does with the status
ErrorOutcome(o, ret, regs) ==
    IF ~Succeeded(o, ret)
    THEN [fpc |-> "ret", halts |-> 0,
          result |-> [kind |-> "Err",
                      val |-> IF o \in TdErrOps THEN TdCallErrorFrom(ret)
                              ELSE TdVmcallErrorFrom(ret)]]
    ELSE [fpc |-> "ret", halts |-> 0, result |-> [kind |-> "Ok", val |-> OkValue(o, regs)]]

\* racing callers make one access each; a single caller makes up to MaxCalls
CallLimit == IF host = "ok" THEN 1 ELSE MaxCalls

\* an operation is entered
Invoke(p) ==
    /\ fpc[p] = "idle"
    /\ calls[p] < CallLimit
    /\ \E o \in OpsOffered : \E a \in Args(p, o) :
         /\ op' = [op EXCEPT ![p] = o]
         /\ arg' = [arg EXCEPT ![p] = a]
         /\ fpc' = [fpc EXCEPT ![p] = IF o \in MaskOps THEN "mask" ELSE "issue"]
    /\ UNCHANGED <<host, once, maskCell, infoCalls, infoStatus, infoRcx, shareBit,
                   hostAddr, status, out, result, haltReqs, calls, prevMap>>
    /\ UNCHANGED acceptVars

\* the argument block is built, the call is issued and its status handled
Issue(p) ==
    /\ fpc[p] = "issue"
    /\ \E ret \in CallStatuses(op[p]), regs \in OutBlocks :
         LET o == IF op[p] \in HaltOps
                  THEN HaltingOutcome(op[p], arg[p], ret, regs)
                  ELSE ErrorOutcome(op[p], ret, regs)
         IN /\ hostAddr' = [hostAddr EXCEPT ![p] =
                  HostAddress(op[p], arg[p], shareBit[p])]
            /\ status' = [status EXCEPT ![p] = ret]
            /\ out' = [out EXCEPT ![p] = regs]
            /\ fpc' = [fpc EXCEPT ![p] = o.fpc]
            /\ haltReqs' = [haltReqs EXCEPT ![p] = @ + o.halts]
            /\ result' = [result EXCEPT ![p] = o.result]
    /\ UNCHANGED <<host, once, maskCell, infoCalls, infoStatus, infoRcx, op, arg,
                   shareBit, calls, prevMap>>
    /\ UNCHANGED acceptVars

\* tdvmcall_halt() returns once the host resumes the virtual CPU; the operation
\* then runs to its end and returns the value computed from the output registers
HaltResume(p) ==
    /\ fpc[p] = "halted"
    /\ result' = [result EXCEPT ![p] =
                    [kind |-> "Value", val |-> ReadValue(op[p], arg[p], out[p])]]
    /\ fpc' = [fpc EXCEPT ![p] = "ret"]
    /\ UNCHANGED <<host, once, maskCell, infoCalls, infoStatus, infoRcx, op, arg,
                   shareBit, hostAddr, status, out, haltReqs, calls, prevMap>>
    /\ UNCHANGED acceptVars

\* the caller takes the result
Return(p) ==
    /\ fpc[p] = "ret"
    /\ fpc' = [fpc EXCEPT ![p] = "idle"]
    /\ calls' = [calls EXCEPT ![p] = @ + 1]
    /\ prevMap' = [prevMap EXCEPT ![p] =
                     IF op[p] = "mapgpa"
                     THEN [valid |-> TRUE, shared |-> arg[p].shared,
                           addr |-> arg[p].addr, r12 |-> hostAddr[p]]
                     ELSE @]
    /\ op' = [op EXCEPT ![p] = "none"]
    /\ arg' = [arg EXCEPT ![p] = NoArg]
    /\ shareBit' = [shareBit EXCEPT ![p] = NoBits]
    /\ hostAddr' = [hostAddr EXCEPT ![p] = NoBits]
    /\ status' = [status EXCEPT ![p] = "none"]
    /\ out' = [out EXCEPT ![p] = NoRegs]
    /\ result' = [result EXCEPT ![p] = NoResult]
    /\ haltReqs' = [haltReqs EXCEPT ![p] = 0]
    /\ UNCHANGED <<host, once, maskCell, infoCalls, infoStatus, infoRcx>>
    /\ UNCHANGED acceptVars

\* ================================================================ specifications
InitFacadeCpu ==
    /\ once = "INCOMPLETE"
    /\ maskCell = {}
    /\ infoCalls = 0
    /\ infoStatus = "none"
    /\ infoRcx = {}
    /\ op = [p \in Cpus |-> "none"]
    /\ arg = [p \in Cpus |-> NoArg]
    /\ shareBit = [p \in Cpus |-> NoBits]
    /\ hostAddr = [p \in Cpus |-> NoBits]
    /\ status = [p \in Cpus |-> "none"]
    /\ out = [p \in Cpus |-> NoRegs]
    /\ result = [p \in Cpus |-> NoResult]
    /\ haltReqs = [p \in Cpus |-> 0]
    /\ calls = [p \in Cpus |-> 0]
    /\ prevMap = [p \in Cpus |-> NoMap]

\* no virtual CPU uses the facade
FacadeOff ==
    /\ host = "any"
    /\ fpc = [p \in Cpus |-> "off"]
    /\ InitFacadeCpu

\* no virtual CPU accepts memory
AcceptOff ==
    /\ monitor = "any"
    /\ only4K = {}
    /\ accepted = {}
    /\ accepted0 = {}
    /\ pc = [p \in Cpus |-> "off"]
    /\ InitCpu

\* one caller of td_accept_memory; the monitor may answer any status
InitAccept ==
    /\ monitor = "any"
    /\ only4K = {}
    /\ accepted = {}
    /\ accepted0 = {}
    /\ pc = [p \in Cpus |-> IF p = 1 THEN "idle" ELSE "off"]
    /\ InitCpu
    /\ FacadeOff

\* concurrent callers of td_accept_memory; the monitor answers from its page state
InitIdem ==
    /\ monitor = "pages"
    /\ only4K \in SUBSET {0}
    /\ accepted \in {{}, {<<4096, 8192>>}}
    /\ accepted0 = accepted
    /\ pc = [p \in Cpus |-> "idle"]
    /\ InitCpu
    /\ FacadeOff

\* one caller of the facade; the host may answer any status
Init ==
    /\ host = "any"
    /\ fpc = [p \in Cpus |-> IF p = 1 THEN "idle" ELSE "off"]
    /\ InitFacadeCpu
    /\ AcceptOff

\* concurrent callers of the operations that use SHARED_MASK; the host succeeds
InitMask ==
    /\ host = "ok"
    /\ fpc = [p \in Cpus |-> "idle"]
    /\ InitFacadeCpu
    /\ AcceptOff

NextAccept == \E p \in Cpus : Call(p) \/ LoopStep(p) \/ AcceptStep(p) \/ ReturnStep(p)

Next ==
    \E p \in Cpus :
        \/ Invoke(p) \/ MaskRead(p) \/ MaskInitBegin(p) \/ MaskInitRun(p)
        \/ MaskInitDone(p) \/ Issue(p) \/ HaltResume(p) \/ Return(p)

NextMask ==
    \E p \in Cpus :
        \/ Invoke(p) \/ MaskRead(p) \/ MaskInitBegin(p) \/ MaskInitRun(p)
        \/ MaskInitDone(p) \/ MaskPoisoned(p) \/ Issue(p) \/ Return(p)

SpecAccept == InitAccept /\ [][NextAccept]_vars
SpecIdem == InitIdem /\ [][NextAccept]_vars
Spec == Init /\ [][Next]_vars
SpecMask == InitMask /\ [][NextMask]_vars

\* ================================================================ acceptance claims
Entered(p) == pc[p] \notin {"off", "idle"}
Aligned4K(x) == x % PAGE_SIZE_4K = 0
WellFormed(p) == Aligned4K(address[p]) /\ Aligned4K(len[p]) /\ len[p] # 0
RangeEnd(p) == address[p] + len[p]

\* C1 (coverage): for a 4KB-aligned base and a 4KB-aligned non-zero len, while every
\* attempt succeeds the attempts never overlap, never leave [base, base+len) and
\* the call does not abort; when it returns, the memory covered is exactly
\* [base, base+len) and the cursor is base+len.
C1_Coverage ==
    \A p \in Cpus :
        (Entered(p) /\ WellFormed(p) /\ allOk[p]) =>
            /\ ~overlap[p]
            /\ pc[p] # "panic"
            /\ \A iv \in covered[p] : address[p] <= iv[1] /\ iv[2] <= RangeEnd(p)
            /\ pc[p] = "done" =>
                 /\ covered[p] = {<<address[p], RangeEnd(p)>>}
                 /\ start[p] = RangeEnd(p)

\* a pass that mixed 4KB and 2MB attempts, all successful, has returned
C1_Witness ==
    /\ pc[1] = "done" /\ allOk[1] /\ WellFormed(1)
    /\ n2M[1] >= 2 /\ nAttempts[1] >= n2M[1] + 2

\* C2 (split correctness): after a 2MB attempt at A is answered "size mismatch", the
\* k-th attempt that follows (k = 1..512) is the 4KB attempt at A + (k-1)*4KB, made
\* by the frame td_accept_pages(A, 512, 4KB); the attempt after those is beyond
\* A + 2MB; the call aborts only on a status it must not tolerate ("already
\* accepted" is none), so otherwise it carries on and returns.
C2_SplitCorrect ==
    \A p \in Cpus :
        /\ (splitBase[p] # -1 /\ splitCount[p] \in 1..SPLIT_PAGES) =>
              /\ lastAddr[p] = splitBase[p] + (splitCount[p] - 1) * PAGE_SIZE_4K
              /\ lastLevel[p] = 0
        /\ (splitBase[p] # -1 /\ splitCount[p] > SPLIT_PAGES) =>
              /\ lastAddr[p] >= splitBase[p] + PAGE_SIZE_2M
        /\ (splitBase[p] # -1 /\ splitCount[p] = 0) =>
              /\ lastAddr[p] = splitBase[p] /\ lastLevel[p] = 1
              /\ pc[p] = "pages" /\ Len(stack[p]) = 2
        /\ (pc[p] = "pages" /\ Len(stack[p]) = 2) =>
              /\ Top(stack[p]).address = splitBase[p]
              /\ Top(stack[p]).pages = SPLIT_PAGES
              /\ Top(stack[p]).page_size = PAGE_SIZE_4K
              /\ Top(stack[p]).i = splitCount[p]
        /\ (WellFormed(p) /\ pc[p] = "panic") => unexpected[p] # "none"

\* a split whose 4KB attempts met "already accepted" was followed by further
\* attempts and the call returned
C2_Witness ==
    /\ pc[1] = "done" /\ splitBase[1] # -1 /\ splitCount[1] > SPLIT_PAGES
    /\ sawAlready[1]

\* C3 (scenario A, as stated): td_accept_memory(0x100000, 0x200000) with every
\* attempt successful issues exactly one attempt, at the 2MB level, and the
\* cursor ends at 0x300000.
ScenarioA(p) ==
    /\ pc[p] = "done" /\ allOk[p]
    /\ address[p] = 1048576 /\ len[p] = 2097152

C3_Original ==
    \A p \in Cpus :
        ScenarioA(p) => nAttempts[p] = 1 /\ n2M[p] = 1 /\ start[p] = 3145728

\* C3 (amended): 0x100000 is not 2MB-aligned, so the call issues exactly 512
\* attempts, all at the 4KB level, and the cursor ends at 0x300000.
C3_Amended ==
    \A p \in Cpus :
        ScenarioA(p) =>
            /\ nAttempts[p] = 512 /\ n2M[p] = 0 /\ start[p] = 3145728
            /\ covered[p] = {<<1048576, 3145728>>} /\ ~overlap[p]

C3_Witness == ScenarioA(1)

\* C4 (as stated): a call whose base or len is not 4KB-aligned, or whose len is
\* zero, never returns normally.
C4_Original ==
    \A p \in Cpus :
        (Entered(p) /\ ~WellFormed(p)) => pc[p] # "done"

\* C4 (amended): a call with a non-zero len whose base or len is not 4KB-aligned
\* never returns normally: until it is aborted it can always take its next step,
\* and the granule selection aborts it when the cursor or the remainder is not
\* 4KB-aligned; a call with len = 0 issues no attempt and does not abort.
C4_Amended ==
    \A p \in Cpus :
        Entered(p) =>
            /\ (len[p] # 0 /\ ~WellFormed(p)) =>
                  /\ pc[p] # "done"
                  /\ pc[p] = "pages" => Aligned4K(start[p])
                  /\ (pc[p] = "panic" /\ unexpected[p] = "none") =>
                        ~Use4K(RangeEnd(p) - start[p], start[p])
                  /\ pc[p] \in {"loop", "pages"} =>
                        ENABLED (LoopStep(p) \/ AcceptStep(p) \/ ReturnStep(p))
            /\ len[p] = 0 => (pc[p] \in {"loop", "done"} /\ nAttempts[p] = 0)

\* a call with an aligned base and a misaligned len aborted after issuing attempts
C4_Witness ==
    /\ pc[1] = "panic" /\ unexpected[1] = "none"
    /\ Aligned4K(address[1]) /\ ~Aligned4K(len[1]) /\ nAttempts[1] >= 2

\* C5 (no swallowed failure): once an attempt has returned a status other than
\* success, "already accepted", or "size mismatch" at the 2MB level, the call is
\* aborted, stays aborted, and that attempt is the last one it issued.
C5_NoSwallow ==
    \A p \in Cpus :
        unexpected[p] # "none" =>
            /\ pc[p] = "panic"
            /\ ~Tolerated(unexpected[p], LevelSize(lastLevel[p]))

\* a "size mismatch" answered to a 4KB attempt inside a split aborted the call
C5_Witness ==
    /\ pc[1] = "panic" /\ unexpected[1] = MISMATCH /\ lastLevel[1] = 0
    /\ Len(stack[1]) = 2 /\ splitCount[1] > 1

\* C6 (idempotent re-acceptance): against a monitor that answers from its page
\* state, no pass over a well-formed range aborts, whatever was accepted before
\* or is accepted meanwhile by the other pass; memory once accepted stays
\* accepted; a pass that has returned has its whole range accepted; and when all
\* passes have returned the accepted memory is what was accepted before plus the
\* ranges, the same whether a range was passed once or twice.
RECURSIVE UnionOfRanges(_, _)
UnionOfRanges(S, ps) ==
    IF ps = {} THEN S
    ELSE LET p == CHOOSE q \in ps : TRUE
         IN UnionOfRanges(AddInterval(S, address[p], RangeEnd(p)), ps \ {p})

C6_Idempotent ==
    /\ \A p \in Cpus : pc[p] # "panic" /\ unexpected[p] = "none"
    /\ \A iv \in accepted0 : Covers(accepted, iv[1], iv[2])
    /\ \A p \in Cpus : pc[p] = "done" => Covers(accepted, address[p], RangeEnd(p))
    /\ (\A p \in Cpus : pc[p] = "done") => accepted = UnionOfRanges(accepted0, Cpus)

\* two passes over the same range have both returned, each having met pages the
\* other (or an earlier pass) had accepted
C6_Witness ==
    /\ \A p \in Cpus : pc[p] = "done" /\ sawAlready[p]
    /\ address[1] = address[2] /\ len[1] = len[2]
    /\ accepted0 = {}

\* ================================================================ facade claims
\* the width the initialiser was given: the low 6 bits of rcx
InfoWidth == BitsValue(infoRcx \cap (0..5))
InfoWidthSupported == infoStatus = SUCCESS /\ InfoWidth \in {48, 52}
ExpectedMask == IF InfoWidth = 48 THEN {47} ELSE {51}

\* C7 (shared-mask derivation): the mask is stored only for a width (low 6 bits of
\* rcx) of 48 or 52, and is then 1<<47 or 1<<51; for any other width, or a failed
\* guest-info call, nothing is stored and the initialisation panics; every
\* operation that uses the mask has read exactly that mask, and the address it
\* presents to the host is built with it.
C7_MaskDerivation ==
    /\ once = "COMPLETE" => (InfoWidthSupported /\ maskCell = ExpectedMask)
    /\ (infoCalls > 0 /\ ~InfoWidthSupported) => (once = "PANICKED" /\ maskCell = {})
    /\ once = "PANICKED" => ~InfoWidthSupported
    /\ \A p \in Cpus :
         /\ (fpc[p] \in {"issue", "halted", "ret"} /\ op[p] \in MaskOps) =>
               (InfoWidthSupported /\ shareBit[p] = ExpectedMask)
         /\ (fpc[p] \in {"halted", "ret"} /\ op[p] \in MaskOps) =>
               /\ hostAddr[p] \ ExpectedMask = arg[p].addr \ ExpectedMask
               /\ (op[p] # "mapgpa" \/ arg[p].shared) => ExpectedMask \subseteq hostAddr[p]
               /\ (op[p] = "mapgpa" /\ ~arg[p].shared) => hostAddr[p] \cap ExpectedMask = {}

\* a width of 52 delivered with higher bits set in rcx gave the mask 1<<51, and an
\* mmio read presented its address with that bit
C7_Witness ==
    /\ once = "COMPLETE" /\ infoRcx = {2, 4, 5, 63} /\ maskCell = {51}
    /\ \E p \in Cpus : fpc[p] = "ret" /\ op[p] = "mmio_read" /\ hostAddr[p] = {12, 21, 51}

\* C8 (exactly-once initialisation): in every interleaving of the callers the
\* guest-info call is issued at most once, and exactly once as soon as the gate
\* has left RUNNING; at most one caller runs the initialiser; a caller reads the
\* mask only from a completed gate, so every caller reads the same stored value;
\* once the gate is complete, the stored value, the gate and the number of
\* guest-info calls never change.
C8_Inv ==
    /\ infoCalls <= 1
    /\ once \in {"COMPLETE", "PANICKED"} => infoCalls = 1
    /\ once = "INCOMPLETE" => infoCalls = 0
    /\ Cardinality({p \in Cpus : fpc[p] \in {"init", "publish"}}) =
          (IF once = "RUNNING" THEN 1 ELSE 0)
    /\ \A p \in Cpus :
          shareBit[p] # NoBits =>
             (once = "COMPLETE" /\ shareBit[p] = maskCell /\ maskCell \in {{47}, {51}})
    /\ \A p, q \in Cpus :
          (shareBit[p] # NoBits /\ shareBit[q] # NoBits) => shareBit[p] = shareBit[q]

C8_Stable ==
    once = "COMPLETE" =>
        (once' = "COMPLETE" /\ maskCell' = maskCell /\ infoCalls' = infoCalls)

C8_ExactlyOnce == []C8_Inv /\ [][C8_Stable]_vars

\* two callers, both in their first operation, have both read the mask, and one
\* guest-info call was issued
C8_Witness ==
    /\ calls[1] = 0 /\ calls[2] = 0
    /\ shareBit[1] # NoBits /\ shareBit[2] # NoBits
    /\ infoCalls = 1

\* C9 (two-tier failure policy): an I/O, MMIO or cpuid operation whose call
\* returned a non-success status issues a halt request and does not return to its
\* caller, so it hands over no value computed from the failed call; an
\* error-returning operation issues no halt request and returns Ok exactly when
\* the status is success, Err otherwise.
C9_TwoTier ==
    \A p \in Cpus :
        /\ fpc[p] = "halted" =>
              (op[p] \in HaltOps /\ haltReqs[p] = 1 /\ status[p] # TDVMCALL_STATUS_SUCCESS)
        /\ (fpc[p] = "ret" /\ op[p] \in HaltOps) =>
              (status[p] = TDVMCALL_STATUS_SUCCESS /\ haltReqs[p] = 0)
        /\ (fpc[p] = "ret" /\ op[p] \in ErrOps) =>
              /\ haltReqs[p] = 0
              /\ result[p].kind = (IF Succeeded(op[p], status[p]) THEN "Ok" ELSE "Err")

\* C10 (mapGpa round trip): with the mask m (1<<47 or 1<<51), mapgpa(true, p)
\* presents p with bit m set and mapgpa(false, p) presents p with bit m cleared,
\* the other bits unchanged; a private conversion that follows a shared
\* conversion of the same range (named by the original or by the tagged address)
\* presents the original address with bit m cleared, which is the original
\* address when that was a private one; the mask a later call reads is the mask
\* the earlier call used.
C10_MapGpaRoundTrip ==
    \A p \in Cpus :
        /\ (prevMap[p].valid /\ prevMap[p].shared) =>
              (once = "COMPLETE" /\ maskCell \subseteq prevMap[p].r12)
        /\ (fpc[p] = "ret" /\ op[p] = "mapgpa") =>
              LET m == maskCell
                  a == arg[p].addr
                  r == hostAddr[p]
                  q == prevMap[p]
              IN /\ m \in {{47}, {51}} /\ shareBit[p] = m
                 /\ r \ m = a \ m
                 /\ arg[p].shared => m \subseteq r
                 /\ ~arg[p].shared => r \cap m = {}
                 /\ (q.valid /\ q.shared /\ ~arg[p].shared /\ a \in {q.addr, q.r12}) =>
                       /\ r = q.addr \ m
                       /\ q.addr \cap m = {} => r = q.addr

\* {12} was converted to shared under the mask 1<<51, and the tagged address
\* {12, 51} was then converted back to private
C10_Witness ==
    /\ fpc[1] = "ret" /\ op[1] = "mapgpa" /\ ~arg[1].shared
    /\ prevMap[1].valid /\ prevMap[1].shared /\ prevMap[1].addr = {12}
    /\ arg[1].addr = prevMap[1].r12 /\ maskCell = {51} /\ hostAddr[1] = {12}
====
